---- MODULE Spec2Model ----
(***************************************************************************)
(* Model of the notes/groups backend: the storage layer (src/src/db.rs)    *)
(* and the request handlers (src/src/api.rs), served one request at a time *)
(* and, in SpecConcurrent, several at a time; of the completion client     *)
(* (src/src/groq.rs); and of the handler of POST /api/summarize that       *)
(* src/src/main.rs serves, which is described by the specification only.   *)
(*                                                                         *)
(* Strings are sequences of one-character strings, so that trim, len,      *)
(* contains, to_uppercase and to_lowercase are computed as the code        *)
(* computes them.  The columns filled by DEFAULT CURRENT_TIMESTAMP are not *)
(* part of the model.                                                      *)
(***************************************************************************)
EXTENDS Integers, Sequences, FiniteSets, TLC

\* TLC keeps the fields of a record in the order in which their names first
\* appear in the module.  Every record of the model lists its fields in the
\* order fixed here, so that no record is ever reordered after it is built.
RecordFields ==
    [is_some |-> 1, accounts |-> 2, groups |-> 3, group_users |-> 4,
     notes |-> 5, note_shares |-> 6, seq |-> 7, ok |-> 8, failed |-> 9,
     db |-> 10, value |-> 11, removed |-> 12, stmts |-> 13, done |-> 14,
     resp |-> 15, task |-> 16, err |-> 17, total_notes |-> 18,
     names |-> 19, emails |-> 20, passwords |-> 21, group_names |-> 22,
     ids |-> 23, roles |-> 24, contents |-> 25, geometries |-> 26,
     authors |-> 27, can_edits |-> 28, max_accounts |-> 29,
     max_groups |-> 30, max_notes |-> 31, op |-> 32, pc |-> 33, id |-> 34,
     name |-> 35, email |-> 36, password_hash |-> 37, group_name |-> 38,
     note_id |-> 39, title |-> 40, content |-> 41, color |-> 42, x |-> 43,
     y |-> 44, width |-> 45, height |-> 46, z_index |-> 47,
     created_by |-> 48, group_id |-> 49, user_id |-> 50, can_edit |-> 51,
     share |-> 52, role |-> 53, membership |-> 54, req |-> 55,
     input |-> 56, once |-> 57, twice |-> 58, bytes |-> 59,
     content_type |-> 60, text |-> 61, sent |-> 62, reply |-> 63,
     result |-> 64, request |-> 65, parsed |-> 66, calls |-> 67,
     stored |-> 68, stored_before |-> 69, password |-> 70, kind |-> 71,
     v |-> 72, error |-> 73, delivered |-> 74, status |-> 75, code |-> 76,
     body |-> 77, wrote |-> 78]

\* ------------------------------------------------------------------------
\* Strings

\* Option<T>
None == [is_some |-> FALSE]

Some(v) == [is_some |-> TRUE, value |-> v]

LowerLetters == <<"a","b","c","d","e","f","g","h","i","j","k","l","m",
                  "n","o","p","q","r","s","t","u","v","w","x","y","z">>

UpperLetters == <<"A","B","C","D","E","F","G","H","I","J","K","L","M",
                  "N","O","P","Q","R","S","T","U","V","W","X","Y","Z">>

Digits == {"0","1","2","3","4","5","6","7","8","9"}

\* a character outside ASCII: two bytes in UTF-8
MultiByteChar == "U+00E9"

is_whitespace(c) == c = " "

is_ascii_hexdigit(c) ==
    \/ c \in Digits
    \/ \E i \in 1..6 : c = LowerLetters[i] \/ c = UpperLetters[i]

char_to_uppercase(c) ==
    IF \E i \in 1..26 : LowerLetters[i] = c
    THEN UpperLetters[CHOOSE i \in 1..26 : LowerLetters[i] = c]
    ELSE c

char_to_lowercase(c) ==
    IF \E i \in 1..26 : UpperLetters[i] = c
    THEN LowerLetters[CHOOSE i \in 1..26 : UpperLetters[i] = c]
    ELSE c

to_uppercase(s) == [i \in 1..Len(s) |-> char_to_uppercase(s[i])]

to_lowercase(s) == [i \in 1..Len(s) |-> char_to_lowercase(s[i])]

len_utf8(c) == IF c = MultiByteChar THEN 2 ELSE 1

\* str::len: the length in bytes
str_len(s) == Len(s) + Cardinality({i \in 1..Len(s) : len_utf8(s[i]) = 2})

\* the string from its first character that is not whitespace
trim_start(s) ==
    IF \A i \in 1..Len(s) : is_whitespace(s[i]) THEN <<>>
    ELSE LET first == CHOOSE i \in 1..Len(s) :
                          /\ ~is_whitespace(s[i])
                          /\ \A j \in 1..(i - 1) : is_whitespace(s[j])
         IN SubSeq(s, first, Len(s))

\* the string up to its last character that is not whitespace
trim_end(s) ==
    IF \A i \in 1..Len(s) : is_whitespace(s[i]) THEN <<>>
    ELSE LET last == CHOOSE i \in 1..Len(s) :
                         /\ ~is_whitespace(s[i])
                         /\ \A j \in (i + 1)..Len(s) : is_whitespace(s[j])
         IN SubSeq(s, 1, last)

trim(s) == trim_end(trim_start(s))

is_empty(s) == s = <<>>

contains(s, c) == \E i \in 1..Len(s) : s[i] = c

starts_with(s, c) == s # <<>> /\ s[1] = c

\* ------------------------------------------------------------------------
\* Colour normalisation (api.rs)

DefaultColor == <<"#","F","F","F","F","8","8">>

HexColorLen == 7

\* a match with the catch-all arm only
Palette_default_only(name) == DefaultColor

Palette(name) ==
    CASE name = <<"y","e","l","l","o","w">> -> <<"#","F","F","F","F","8","8">>
      [] name = <<"p","i","n","k">>         -> <<"#","F","B","C","F","E","8">>
      [] name = <<"g","r","e","e","n">>     -> <<"#","B","B","F","7","D","0">>
      [] name = <<"b","l","u","e">>         -> <<"#","B","F","D","B","F","E">>
      [] name = <<"o","r","a","n","g","e">> -> <<"#","F","E","D","7","A","A">>
      [] name = <<"p","u","r","p","l","e">> -> <<"#","E","9","D","5","F","F">>
      [] OTHER                              -> DefaultColor

normalize_color_no_uppercase(input) ==
    IF ~input.is_some THEN DefaultColor
    ELSE LET trimmed == trim(input.value) IN
         IF is_empty(trimmed) THEN DefaultColor
         ELSE IF /\ starts_with(trimmed, "#")
                 /\ str_len(trimmed) = HexColorLen
                 /\ \A i \in 2..Len(trimmed) : is_ascii_hexdigit(trimmed[i])
              THEN trimmed
              ELSE Palette(to_lowercase(trimmed))

normalize_color(input) ==
    IF ~input.is_some THEN DefaultColor
    ELSE LET trimmed == trim(input.value) IN
         IF is_empty(trimmed) THEN DefaultColor
         ELSE IF /\ starts_with(trimmed, "#")
                 /\ str_len(trimmed) = HexColorLen
                 /\ \A i \in 2..Len(trimmed) : is_ascii_hexdigit(trimmed[i])
              THEN to_uppercase(trimmed)
              ELSE Palette(to_lowercase(trimmed))

\* ------------------------------------------------------------------------
\* Storage layer (db.rs).  A database value is a record of the five tables
\* and the AUTOINCREMENT counters (sqlite_sequence).  Every operation takes
\* the database and a fault point: fault = k > 0 makes the k-th statement
\* of the operation fail with a driver-level error, fault = 0 is no fault.

Tables == {"accounts", "groups", "group_users", "notes", "note_shares"}

EmptyDb ==
    [accounts |-> {}, groups |-> {}, group_users |-> {}, notes |-> {},
     note_shares |-> {}, seq |-> [t \in Tables |-> 0]]

Ok(d, v) == [ok |-> TRUE, db |-> d, value |-> v]

Err(d) == [ok |-> FALSE, db |-> d, value |-> None]

Ids(rows) == {r.id : r \in rows}

\* the rowid an AUTOINCREMENT insert into table t gets
next_rowid(d, t) == d.seq[t] + 1

bump(d, t) == [d.seq EXCEPT ![t] = @ + 1]

\* the INSERT into a table whose email column is not UNIQUE
insert_account_not_unique(d, name, email, password_hash) ==
    LET id == next_rowid(d, "accounts") IN
    Ok([d EXCEPT !.accounts = @ \cup {[id |-> id, name |-> name,
                     email |-> email, password_hash |-> password_hash]},
                 !.seq = bump(d, "accounts")], id)

\* INSERT INTO accounts: email is UNIQUE
insert_account(d, name, email, password_hash) ==
    IF \E a \in d.accounts : a.email = email THEN Err(d)
    ELSE LET id == next_rowid(d, "accounts") IN
         Ok([d EXCEPT !.accounts = @ \cup {[id |-> id, name |-> name,
                          email |-> email, password_hash |-> password_hash]},
                      !.seq = bump(d, "accounts")], id)

Db_create_account(d, name, email, password_hash, fault) ==
    IF fault = 1 THEN Err(d) ELSE insert_account(d, name, email, password_hash)

Db_get_account(d, account_id, fault) ==
    IF fault = 1 THEN Err(d)
    ELSE IF \E a \in d.accounts : a.id = account_id
         THEN Ok(d, Some(CHOOSE a \in d.accounts : a.id = account_id))
         ELSE Ok(d, None)

Db_get_group(d, group_id, fault) ==
    IF fault = 1 THEN Err(d)
    ELSE IF \E g \in d.groups : g.id = group_id
         THEN Ok(d, Some(CHOOSE g \in d.groups : g.id = group_id))
         ELSE Ok(d, None)

\* INSERT INTO groups: created_by REFERENCES accounts(id)
insert_group(d, group_name, created_by) ==
    IF created_by \notin Ids(d.accounts) THEN Err(d)
    ELSE LET id == next_rowid(d, "groups") IN
         Ok([d EXCEPT !.groups = @ \cup {[id |-> id, group_name |-> group_name,
                                          created_by |-> created_by]},
                      !.seq = bump(d, "groups")], id)

\* a plain INSERT that no constraint stops
insert_group_user_unconstrained(d, group_id, user_id, role, or_ignore) ==
    LET id == next_rowid(d, "group_users") IN
    Ok([d EXCEPT !.group_users = @ \cup {[id |-> id, group_id |-> group_id,
                                          user_id |-> user_id, role |-> role]},
                 !.seq = bump(d, "group_users")], id)

\* INSERT [OR IGNORE] INTO group_users: both foreign keys must resolve (a
\* foreign-key failure is not ignored), UNIQUE(group_id, user_id)
insert_group_user(d, group_id, user_id, role, or_ignore) ==
    IF group_id \notin Ids(d.groups) \/ user_id \notin Ids(d.accounts)
    THEN Err(d)
    ELSE IF \E m \in d.group_users : m.group_id = group_id /\ m.user_id = user_id
         THEN (IF or_ignore THEN Ok(d, None) ELSE Err(d))
         ELSE LET id == next_rowid(d, "group_users") IN
              Ok([d EXCEPT !.group_users = @ \cup {[id |-> id, group_id |-> group_id,
                                        user_id |-> user_id, role |-> role]},
                           !.seq = bump(d, "group_users")], id)

\* create_group without the transaction: the statements already executed
\* stay when a later one fails
Db_create_group_no_tx(d, group_name, created_by, fault) ==
    IF fault = 1 THEN Err(d)
    ELSE LET g == insert_group(d, group_name, created_by) IN
         IF fault = 2 \/ ~g.ok THEN Err(d)
         ELSE LET m == insert_group_user(g.db, g.value, created_by, "owner", FALSE) IN
              IF fault = 3 \/ ~m.ok THEN Err(g.db)
              ELSE Ok(m.db, g.value)

\* statements: 1 BEGIN, 2 INSERT groups, 3 INSERT group_users, 4 COMMIT;
\* an error drops the transaction, which rolls it back
Db_create_group(d, group_name, created_by, fault) ==
    IF fault = 1 THEN Err(d)
    ELSE LET g == insert_group(d, group_name, created_by) IN
         IF fault = 2 \/ ~g.ok THEN Err(d)
         ELSE LET m == insert_group_user(g.db, g.value, created_by, "owner", FALSE) IN
              IF fault = 3 \/ ~m.ok THEN Err(d)
              ELSE IF fault = 4 THEN Err(d)
              ELSE Ok(m.db, g.value)

\* SELECT ... FROM groups g INNER JOIN group_users gu ON gu.group_id = g.id
\* WHERE gu.user_id = ?   (one row per matching membership row)
Db_list_groups_for_user(d, user_id) ==
    {[id |-> g.id, group_name |-> g.group_name, created_by |-> g.created_by,
      role |-> gu.role, membership |-> gu.id] :
        <<g, gu>> \in {p \in d.groups \X d.group_users :
                          p[2].group_id = p[1].id /\ p[2].user_id = user_id}}

Db_add_user_to_group(d, group_id, user_id, role, fault) ==
    IF fault = 1 THEN Err(d)
    ELSE insert_group_user(d, group_id, user_id, role, TRUE)

\* the query without its WHERE group_id = ?
Db_is_user_in_any_group(d, group_id, user_id, fault) ==
    IF fault = 1 THEN Err(d)
    ELSE Ok(d, \E m \in d.group_users : m.user_id = user_id)

Db_is_user_in_group(d, group_id, user_id, fault) ==
    IF fault = 1 THEN Err(d)
    ELSE Ok(d, \E m \in d.group_users :
                   m.group_id = group_id /\ m.user_id = user_id)

\* INSERT INTO notes: created_by is nullable and REFERENCES accounts(id)
insert_note(d, n) ==
    IF n.created_by.is_some /\ n.created_by.value \notin Ids(d.accounts)
    THEN Err(d)
    ELSE LET id == next_rowid(d, "notes") IN
         Ok([d EXCEPT !.notes = @ \cup {[id |-> id, title |-> n.title,
                          content |-> n.content, color |-> n.color,
                          x |-> n.x, y |-> n.y, width |-> n.width,
                          height |-> n.height, z_index |-> n.z_index,
                          created_by |-> n.created_by]},
                      !.seq = bump(d, "notes")], id)

\* INSERT INTO note_shares: both foreign keys, UNIQUE(note_id, group_id)
insert_note_share(d, note_id, group_id, can_edit) ==
    IF \/ note_id \notin Ids(d.notes)
       \/ group_id \notin Ids(d.groups)
       \/ \E s \in d.note_shares : s.note_id = note_id /\ s.group_id = group_id
    THEN Err(d)
    ELSE LET id == next_rowid(d, "note_shares") IN
         Ok([d EXCEPT !.note_shares = @ \cup {[id |-> id, note_id |-> note_id,
                          group_id |-> group_id, can_edit |-> can_edit]},
                      !.seq = bump(d, "note_shares")], id)

\* the two INSERTs sent to the pool one by one, outside a transaction
Db_create_note_no_tx(d, n, group_id, can_edit, fault) ==
    IF fault = 1 THEN Err(d)
    ELSE LET r == insert_note(d, n) IN
         IF fault = 2 \/ ~r.ok THEN Err(d)
         ELSE LET s == insert_note_share(r.db, r.value, group_id,
                                         IF can_edit THEN 1 ELSE 0) IN
              IF fault = 3 \/ ~s.ok THEN Err(r.db)
              ELSE IF fault = 4 THEN Err(s.db)
              ELSE Ok(s.db, r.value)

\* the note shared to every group and not to group_id only
RECURSIVE share_to_all(_, _, _, _)
share_to_all(d, note_id, groups, can_edit) ==
    IF groups = {} THEN d
    ELSE LET g == CHOOSE g \in groups : TRUE IN
         share_to_all(insert_note_share(d, note_id, g, can_edit).db, note_id,
                      groups \ {g}, can_edit)

Db_create_note_shared_to_all(d, n, group_id, can_edit, fault) ==
    IF fault \in 1..4 THEN Err(d)
    ELSE LET r == insert_note(d, n) IN
         IF ~r.ok THEN Err(d)
         ELSE Ok(share_to_all(r.db, r.value, Ids(d.groups),
                              IF can_edit THEN 1 ELSE 0), r.value)

\* statements: 1 BEGIN, 2 INSERT notes, 3 INSERT note_shares, 4 COMMIT
Db_create_note(d, n, group_id, can_edit, fault) ==
    IF fault = 1 THEN Err(d)
    ELSE LET r == insert_note(d, n) IN
         IF fault = 2 \/ ~r.ok THEN Err(d)
         ELSE LET s == insert_note_share(r.db, r.value, group_id,
                                         IF can_edit THEN 1 ELSE 0) IN
              IF fault = 3 \/ ~s.ok THEN Err(d)
              ELSE IF fault = 4 THEN Err(d)
              ELSE Ok(s.db, r.value)

\* SELECT ... FROM notes n INNER JOIN note_shares ns ON ns.note_id = n.id
\* WHERE ns.group_id = ?
Db_list_notes_for_group(d, group_id) ==
    {[id |-> n.id, title |-> n.title, content |-> n.content,
      color |-> n.color, x |-> n.x, y |-> n.y, width |-> n.width,
      height |-> n.height, z_index |-> n.z_index,
      created_by |-> n.created_by, group_id |-> ns.group_id,
      can_edit |-> ns.can_edit # 0, share |-> ns.id] :
        <<n, ns>> \in {p \in d.notes \X d.note_shares :
                          p[2].note_id = p[1].id /\ p[2].group_id = group_id}}

\* UPDATE notes SET x, y, width, height, z_index WHERE id = ?
Db_update_note_position(d, note_id, x, y, width, height, z_index, fault) ==
    IF fault = 1 THEN Err(d)
    ELSE Ok([d EXCEPT !.notes = {IF n.id = note_id
                                 THEN [n EXCEPT !.x = x, !.y = y,
                                         !.width = width, !.height = height,
                                         !.z_index = z_index]
                                 ELSE n : n \in d.notes}],
            \E n \in d.notes : n.id = note_id)

\* the UPDATE of the content that resets the geometry to the defaults
Db_update_note_content_resets_geometry(d, note_id, title, content, color, fault) ==
    IF fault = 1 THEN Err(d)
    ELSE Ok([d EXCEPT !.notes = {IF n.id = note_id
                                 THEN [n EXCEPT !.title = title,
                                         !.content = content, !.color = color,
                                         !.width = 200, !.height = 150]
                                 ELSE n : n \in d.notes}],
            \E n \in d.notes : n.id = note_id)

\* UPDATE notes SET title, content, color WHERE id = ?
Db_update_note_content(d, note_id, title, content, color, fault) ==
    IF fault = 1 THEN Err(d)
    ELSE Ok([d EXCEPT !.notes = {IF n.id = note_id
                                 THEN [n EXCEPT !.title = title,
                                         !.content = content, !.color = color]
                                 ELSE n : n \in d.notes}],
            \E n \in d.notes : n.id = note_id)

\* DELETE FROM notes WHERE id = ? without the cascade to note_shares
delete_note_row_no_cascade(d, note_id) ==
    [d EXCEPT !.notes = {n \in @ : n.id # note_id}]

\* a deletion of a note that also deletes the memberships of its author
delete_note_row_and_memberships(d, note_id) ==
    [d EXCEPT !.notes = {n \in @ : n.id # note_id},
              !.note_shares = {s \in @ : s.note_id # note_id},
              !.group_users =
                  {m \in @ : \A n \in d.notes :
                      n.id = note_id => n.created_by # Some(m.user_id)}]

\* DELETE FROM notes WHERE id = ?, with note_shares.note_id ON DELETE CASCADE
delete_note_row(d, note_id) ==
    [d EXCEPT !.notes = {n \in @ : n.id # note_id},
              !.note_shares = IF \E n \in d.notes : n.id = note_id
                              THEN {s \in @ : s.note_id # note_id}
                              ELSE @]

rows_affected_by_delete(d, note_id) ==
    Cardinality({n \in d.notes : n.id = note_id})

Db_delete_note(d, note_id, fault) ==
    IF fault = 1 THEN Err(d)
    ELSE Ok(delete_note_row(d, note_id), rows_affected_by_delete(d, note_id) > 0)

\* SELECT note_id FROM note_shares WHERE group_id = ?
select_shared_note_ids_any_group(d, group_id) ==
    {s.note_id : s \in d.note_shares}

select_shared_note_ids(d, group_id) ==
    {s.note_id : s \in {t \in d.note_shares : t.group_id = group_id}}

\* the i-th of the selected ids, in rowid order
RECURSIVE nth_id(_, _)
nth_id(ids, i) ==
    LET m == CHOOSE a \in ids : \A b \in ids : a <= b IN
    IF i = 1 THEN m ELSE nth_id(ids \ {m}, i - 1)

\* the loop of clear_notes_for_group from the i-th id on; the i-th DELETE is
\* statement i + 2 of the operation
RECURSIVE clear_loop(_, _, _, _, _)
clear_loop(d, ids, i, removed, fault) ==
    IF i > Cardinality(ids) THEN [failed |-> FALSE, db |-> d, removed |-> removed]
    ELSE IF fault = i + 2 THEN [failed |-> TRUE, db |-> d, removed |-> removed]
    ELSE LET id == nth_id(ids, i) IN
         clear_loop(delete_note_row(d, id), ids, i + 1,
                    removed + rows_affected_by_delete(d, id), fault)

\* statements: 1 BEGIN, 2 SELECT, 3 .. n+2 the DELETEs, n+3 COMMIT
Db_clear_notes_for_group(d, group_id, fault) ==
    IF fault = 1 \/ fault = 2 THEN Err(d)
    ELSE LET ids == select_shared_note_ids(d, group_id)
             r   == clear_loop(d, ids, 1, 0, fault) IN
         IF r.failed \/ fault = Cardinality(ids) + 3 THEN Err(d)
         ELSE Ok(r.db, r.removed)

Db_count_notes(d) == Cardinality(d.notes)

\* ------------------------------------------------------------------------
\* Handlers (api.rs).  A request in progress is a task: the request's fields
\* and pc, the storage call it performs next.  Each handler is a step
\* operator: it runs the task from pc up to and including its next storage
\* call (an await) and yields the database, the number of statements the
\* call issued, and either the task at its next pc or the response.

ApiError(status, code) == [status |-> status, code |-> code, body |-> None]

bad_request(code) == ApiError(400, code)

unprocessable(code) == ApiError(422, code)

not_found(code) == ApiError(404, code)

internal == ApiError(500, "internal")

Json(body) == [status |-> 200, code |-> "ok", body |-> body]

NO_CONTENT == [status |-> 204, code |-> "no_content", body |-> None]

Done(d, response) ==
    [db |-> d, stmts |-> 0, done |-> TRUE, resp |-> response]

Goto(d, stmts, t, pc) ==
    [db |-> d, stmts |-> stmts, done |-> FALSE, task |-> [t EXCEPT !.pc = pc]]

\* the digest is opaque: equal passwords give equal digests
hash_password(password) == <<"sha256", password>>

MinPasswordLen == 6

password_too_short_untrimmed(t) == str_len(t.password) < MinPasswordLen

\* password.len() < 6, on the trimmed password
password_too_short(t) == str_len(trim(t.password)) < MinPasswordLen

AccountSummary(a) == [id |-> a.id, name |-> a.name, email |-> a.email]

\* Ok(()) is ok; otherwise the error to return
ensure_account_exists(d, account_id, fault) ==
    LET r == Db_get_account(d, account_id, fault) IN
    IF ~r.ok THEN [ok |-> FALSE, err |-> internal]
    ELSE IF r.value.is_some THEN [ok |-> TRUE, err |-> None]
    ELSE [ok |-> FALSE, err |-> not_found("account_not_found")]

ensure_group_exists(d, group_id, fault) ==
    LET r == Db_get_group(d, group_id, fault) IN
    IF ~r.ok THEN [ok |-> FALSE, err |-> internal]
    ELSE IF r.value.is_some THEN [ok |-> TRUE, err |-> None]
    ELSE [ok |-> FALSE, err |-> not_found("group_not_found")]

list_accounts(d, t, fault) ==
    IF fault = 1 THEN Done(d, internal)
    ELSE Done(d, Json({AccountSummary(a) : a \in d.accounts}))

\* the INSERT and the SELECT of the new row are one step: no operation
\* deletes an account in between
create_account(d, t, fault) ==
    LET name == trim(t.name)
        email == trim(t.email)
        password == trim(t.password)
    IN
    IF is_empty(name) THEN Done(d, bad_request("name_empty"))
    ELSE IF is_empty(email) THEN Done(d, bad_request("email_empty"))
    ELSE IF ~contains(email, "@") THEN Done(d, unprocessable("email_invalid"))
    ELSE IF password_too_short(t)
         THEN Done(d, unprocessable("password_short"))
    ELSE LET r == Db_create_account(d, name, email, hash_password(password), fault) IN
         IF ~r.ok THEN Done(d, internal)
         ELSE LET a == Db_get_account(r.db, r.value, fault - 1) IN
              IF ~a.ok THEN Done(r.db, internal)
              ELSE IF ~a.value.is_some THEN Done(r.db, internal)
              ELSE Done(r.db, Json(AccountSummary(a.value.value)))

GroupSummary(g) == [id |-> g.id, group_name |-> g.group_name,
                    created_by |-> g.created_by]

\* pc "create": db.create_group and the SELECT of the new row are one step
create_group(d, t, fault) ==
    IF t.pc = "start" THEN
        IF is_empty(trim(t.group_name)) THEN Done(d, bad_request("group_name_empty"))
        ELSE IF t.created_by <= 0 THEN Done(d, bad_request("created_by_invalid"))
        ELSE LET e == ensure_account_exists(d, t.created_by, fault) IN
             IF ~e.ok THEN Done(d, e.err) ELSE Goto(d, 1, t, "create")
    ELSE
        LET r == Db_create_group(d, trim(t.group_name), t.created_by, fault) IN
        IF ~r.ok THEN Done(r.db, internal)
        ELSE LET g == Db_get_group(r.db, r.value, fault - 4) IN
             IF ~g.ok THEN Done(r.db, internal)
             ELSE IF ~g.value.is_some THEN Done(r.db, internal)
             ELSE Done(r.db, Json(GroupSummary(g.value.value)))

get_group(d, t, fault) ==
    IF t.id <= 0 THEN Done(d, bad_request("invalid_id"))
    ELSE LET g == Db_get_group(d, t.id, fault) IN
         IF ~g.ok THEN Done(d, internal)
         ELSE IF ~g.value.is_some THEN Done(d, not_found("group_not_found"))
         ELSE Done(d, Json(GroupSummary(g.value.value)))

list_groups_for_user(d, t, fault) ==
    IF t.pc = "start" THEN
        IF t.user_id <= 0 THEN Done(d, bad_request("invalid_user_id"))
        ELSE LET e == ensure_account_exists(d, t.user_id, fault) IN
             IF ~e.ok THEN Done(d, e.err) ELSE Goto(d, 1, t, "list")
    ELSE
        IF fault = 1 THEN Done(d, internal)
        ELSE Done(d, Json(Db_list_groups_for_user(d, t.user_id)))

\* matches!(role.as_str(), "owner" | "member")
role_matches(role) == role \in {"owner", "member"}

\* the role check follows ensure_group_exists without an await between
add_user_to_group(d, t, fault) ==
    IF t.pc = "start" THEN
        IF t.group_id <= 0 THEN Done(d, bad_request("invalid_group_id"))
        ELSE IF t.user_id <= 0 THEN Done(d, bad_request("invalid_user_id"))
        ELSE LET e == ensure_account_exists(d, t.user_id, fault) IN
             IF ~e.ok THEN Done(d, e.err) ELSE Goto(d, 1, t, "group")
    ELSE IF t.pc = "group" THEN
        LET e == ensure_group_exists(d, t.group_id, fault)
            role == IF t.role.is_some THEN t.role.value ELSE "member" IN
        IF ~e.ok THEN Done(d, e.err)
        ELSE IF ~role_matches(role)
             THEN Done(d, unprocessable("invalid_role"))
        ELSE Goto(d, 1, t, "insert")
    ELSE
        LET role == IF t.role.is_some THEN t.role.value ELSE "member"
            r == Db_add_user_to_group(d, t.group_id, t.user_id, role, fault) IN
        IF ~r.ok THEN Done(d, internal) ELSE Done(r.db, NO_CONTENT)

list_group_members(d, t, fault) ==
    IF t.pc = "start" THEN
        IF t.group_id <= 0 THEN Done(d, bad_request("invalid_group_id"))
        ELSE LET e == ensure_group_exists(d, t.group_id, fault) IN
             IF ~e.ok THEN Done(d, e.err) ELSE Goto(d, 1, t, "list")
    ELSE
        IF fault = 1 THEN Done(d, internal)
        ELSE Done(d, Json({m \in d.group_users : m.group_id = t.group_id}))

list_group_notes(d, t, fault) ==
    IF t.pc = "start" THEN
        IF t.group_id <= 0 THEN Done(d, bad_request("invalid_group_id"))
        ELSE LET e == ensure_group_exists(d, t.group_id, fault) IN
             IF ~e.ok THEN Done(d, e.err) ELSE Goto(d, 1, t, "list")
    ELSE
        IF fault = 1 THEN Done(d, internal)
        ELSE Done(d, Json(Db_list_notes_for_group(d, t.group_id)))

DefaultWidth == 200

DefaultHeight == 150

DefaultZIndex == 0

unwrap_or(opt, default) == IF opt.is_some THEN opt.value ELSE default

\* the row create_group_note hands to db.create_note
NewNote(t) ==
    [title |-> t.title, content |-> t.content,
     color |-> normalize_color(t.color), x |-> t.x, y |-> t.y,
     width |-> unwrap_or(t.width, DefaultWidth),
     height |-> unwrap_or(t.height, DefaultHeight),
     z_index |-> unwrap_or(t.z_index, DefaultZIndex),
     created_by |-> t.created_by]

create_group_note(d, t, fault) ==
    IF t.pc = "start" THEN
        IF t.group_id <= 0 THEN Done(d, bad_request("invalid_group_id"))
        ELSE LET e == ensure_group_exists(d, t.group_id, fault) IN
             IF ~e.ok THEN Done(d, e.err)
             ELSE IF t.created_by.is_some THEN Goto(d, 1, t, "account")
             ELSE Goto(d, 1, t, "create")
    ELSE IF t.pc = "account" THEN
        LET e == ensure_account_exists(d, t.created_by.value, fault) IN
        IF ~e.ok THEN Done(d, e.err) ELSE Goto(d, 1, t, "member")
    ELSE IF t.pc = "member" THEN
        LET belongs == Db_is_user_in_group(d, t.group_id, t.created_by.value, fault) IN
        IF ~belongs.ok THEN Done(d, internal)
        ELSE IF ~belongs.value THEN Done(d, unprocessable("not_member"))
        ELSE Goto(d, 1, t, "create")
    ELSE
        LET r == Db_create_note(d, NewNote(t), t.group_id,
                                unwrap_or(t.can_edit, FALSE), fault) IN
        IF ~r.ok THEN Done(r.db, internal)
        ELSE Done(r.db, Json([id |-> r.value]))

\* the handler without the check of the rows the UPDATE affected
update_note_position_unchecked(d, t, fault) ==
    IF t.note_id <= 0 THEN Done(d, bad_request("invalid_note_id"))
    ELSE LET r == Db_update_note_position(d, t.note_id, t.x, t.y,
                      unwrap_or(t.width, DefaultWidth),
                      unwrap_or(t.height, DefaultHeight),
                      unwrap_or(t.z_index, DefaultZIndex), fault) IN
         IF ~r.ok THEN Done(d, internal)
         ELSE Done(r.db, NO_CONTENT)

update_note_position(d, t, fault) ==
    IF t.note_id <= 0 THEN Done(d, bad_request("invalid_note_id"))
    ELSE LET r == Db_update_note_position(d, t.note_id, t.x, t.y,
                      unwrap_or(t.width, DefaultWidth),
                      unwrap_or(t.height, DefaultHeight),
                      unwrap_or(t.z_index, DefaultZIndex), fault) IN
         IF ~r.ok THEN Done(d, internal)
         ELSE IF r.value THEN Done(r.db, NO_CONTENT)
         ELSE Done(r.db, not_found("note_not_found"))

\* the handler binding the colour of the payload as it came
update_note_content_raw_color(d, t, fault) ==
    IF t.note_id <= 0 THEN Done(d, bad_request("invalid_note_id"))
    ELSE LET r == Db_update_note_content(d, t.note_id, t.title, t.content,
                                         unwrap_or(t.color, DefaultColor), fault) IN
         IF ~r.ok THEN Done(d, internal)
         ELSE IF r.value THEN Done(r.db, NO_CONTENT)
         ELSE Done(r.db, not_found("note_not_found"))

update_note_content(d, t, fault) ==
    IF t.note_id <= 0 THEN Done(d, bad_request("invalid_note_id"))
    ELSE LET r == Db_update_note_content(d, t.note_id, t.title, t.content,
                                         normalize_color(t.color), fault) IN
         IF ~r.ok THEN Done(d, internal)
         ELSE IF r.value THEN Done(r.db, NO_CONTENT)
         ELSE Done(r.db, not_found("note_not_found"))

delete_note(d, t, fault) ==
    IF t.note_id <= 0 THEN Done(d, bad_request("invalid_note_id"))
    ELSE LET r == Db_delete_note(d, t.note_id, fault) IN
         IF ~r.ok THEN Done(d, internal)
         ELSE IF r.value THEN Done(r.db, NO_CONTENT)
         ELSE Done(r.db, not_found("note_not_found"))

clear_group_notes(d, t, fault) ==
    IF t.pc = "start" THEN
        IF t.group_id <= 0 THEN Done(d, bad_request("invalid_group_id"))
        ELSE LET e == ensure_group_exists(d, t.group_id, fault) IN
             IF ~e.ok THEN Done(d, e.err) ELSE Goto(d, 1, t, "clear")
    ELSE
        LET r == Db_clear_notes_for_group(d, t.group_id, fault) IN
        IF ~r.ok THEN Done(r.db, internal)
        ELSE Done(r.db, Json([removed |-> r.value]))

debug(d, t, fault) ==
    IF fault = 1 THEN Done(d, internal)
    ELSE Done(d, Json([total_notes |-> Db_count_notes(d)]))

\* ------------------------------------------------------------------------
\* Routes, requests and the state machine

\* the storage statements left before the fault once stmts of them are done
after(fault, stmts) == IF fault = 0 THEN 0 ELSE fault - stmts

\* A handler with more than one await, run from the task's pc to its
\* response; fault counts its storage statements from the task's pc on.
RECURSIVE run_list_groups_for_user(_, _, _)
run_list_groups_for_user(d, t, fault) ==
    LET r == list_groups_for_user(d, t, fault) IN
    IF r.done THEN r
    ELSE run_list_groups_for_user(r.db, r.task, after(fault, r.stmts))

RECURSIVE run_create_group(_, _, _)
run_create_group(d, t, fault) ==
    LET r == create_group(d, t, fault) IN
    IF r.done THEN r
    ELSE run_create_group(r.db, r.task, after(fault, r.stmts))

RECURSIVE run_list_group_members(_, _, _)
run_list_group_members(d, t, fault) ==
    LET r == list_group_members(d, t, fault) IN
    IF r.done THEN r
    ELSE run_list_group_members(r.db, r.task, after(fault, r.stmts))

RECURSIVE run_add_user_to_group(_, _, _)
run_add_user_to_group(d, t, fault) ==
    LET r == add_user_to_group(d, t, fault) IN
    IF r.done THEN r
    ELSE run_add_user_to_group(r.db, r.task, after(fault, r.stmts))

RECURSIVE run_list_group_notes(_, _, _)
run_list_group_notes(d, t, fault) ==
    LET r == list_group_notes(d, t, fault) IN
    IF r.done THEN r
    ELSE run_list_group_notes(r.db, r.task, after(fault, r.stmts))

RECURSIVE run_create_group_note(_, _, _)
run_create_group_note(d, t, fault) ==
    LET r == create_group_note(d, t, fault) IN
    IF r.done THEN r
    ELSE run_create_group_note(r.db, r.task, after(fault, r.stmts))

RECURSIVE run_clear_group_notes(_, _, _)
run_clear_group_notes(d, t, fault) ==
    LET r == clear_group_notes(d, t, fault) IN
    IF r.done THEN r
    ELSE run_clear_group_notes(r.db, r.task, after(fault, r.stmts))

\* the number of storage statements a handler issues when none fails
Statements(op, d) ==
    CASE op = "list_accounts"        -> 1
      [] op = "create_account"       -> 2
      [] op = "list_groups_for_user" -> 2
      [] op = "create_group"         -> 6
      [] op = "get_group"            -> 1
      [] op = "list_group_members"   -> 2
      [] op = "add_user_to_group"    -> 3
      [] op = "list_group_notes"     -> 2
      [] op = "create_group_note"    -> 7
      [] op = "clear_group_notes"    -> 4 + Cardinality(d.note_shares)
      [] op = "update_note_content"  -> 1
      [] op = "delete_note"          -> 1
      [] op = "update_note_position" -> 1
      [] op = "debug"                -> 1

\* ------------------------------------------------------------------------
\* Bounds: the rows a table may get, the identifiers and the strings that
\* requests carry

MaxAccounts == 2

MaxGroups == 2

MaxNotes == 2

\* the groups and the notes of the specification of the whole API
MaxGroupsWhole == 1

MaxNotesWhole == 1

MaxIdInput == 3

MaxColorLen == 7

IdInputs == 0..MaxIdInput

NameInputs == { <<>>, <<" ">>, <<" ","A","l"," ">> }

EmailInputs == { <<" "," ">>, <<"a","x">>, <<"a","@","x">>, <<" ","b","@","x"," ">> }

PasswordInputs ==
    { <<" ","1","2","3","4","5"," ">>, <<"s","e","c","r","e","t">>,
      <<MultiByteChar, MultiByteChar, "1", "2">> }

GroupNameInputs == { <<>>, <<" "," ">>, <<" ","T","e","a","m">> }

RoleInputs == {None, Some("owner"), Some("member"), Some("Owner")}

ContentInputs ==
    { [title |-> None, content |-> None, color |-> None],
      [title |-> Some("t"), content |-> Some("c"),
       color |-> Some(<<" ","P","i","n","k">>)] }

GeometryInputs ==
    { [x |-> 10, y |-> 20, width |-> None, height |-> None, z_index |-> None],
      [x |-> 30, y |-> 40, width |-> Some(100), height |-> Some(50),
       z_index |-> Some(2)] }

CanEditInputs == {None, Some(TRUE)}

CreatedByInputs == {None} \cup {Some(i) : i \in IdInputs}

\* what the requests of a specification are drawn from
AllInputs ==
    [names |-> NameInputs, emails |-> EmailInputs,
     passwords |-> PasswordInputs, group_names |-> GroupNameInputs,
     ids |-> IdInputs, roles |-> RoleInputs, contents |-> ContentInputs,
     geometries |-> GeometryInputs, authors |-> CreatedByInputs,
     can_edits |-> CanEditInputs,
     max_accounts |-> MaxAccounts, max_groups |-> MaxGroups,
     max_notes |-> MaxNotes]

VARIABLES db, resp, color, tasks, groq, summ

vars == <<db, resp, color, tasks, groq, summ>>

Idle == [op |-> "idle", pc |-> "idle"]

\* the request last served and its response
\* wrote: the handler changed the store
NoResponse ==
    [req |-> Idle, status |-> 0, code |-> "none", body |-> None, wrote |-> FALSE]

ColorIdle == [input |-> None, once |-> None, twice |-> None]

\* the requests served at the same time
MaxClients == 2

Clients == 1..MaxClients

\* a worker: the request it serves, at the await its handler has reached,
\* and the response once the handler has returned (status 0 before)
Free == [req |-> Idle, status |-> 0, code |-> "none"]

NoTasks == [c \in Clients |-> Free]

\* no summarize call in progress
\* sent: the requests the call has sent to the completion endpoint
GroqIdle ==
    [pc |-> "idle", text |-> "", sent |-> 0, reply |-> None, result |-> None]

\* no POST /api/summarize in progress; stored: the summary rows
SummNoRequest == [bytes |-> 0, content_type |-> "none", text |-> "none"]

SummIdle ==
    [pc |-> "idle", request |-> SummNoRequest, parsed |-> FALSE, calls |-> 0,
     stored |-> 0, stored_before |-> 0, status |-> 0, code |-> "none"]

WithinBounds(P, d) ==
    /\ d.seq["accounts"] <= P.max_accounts
    /\ d.seq["groups"] <= P.max_groups
    /\ d.seq["notes"] <= P.max_notes

\* A request is received and its handler runs to its response: the database
\* and the response it may end with, one for each storage statement that may
\* fail and one for none failing.  No request is taken while a response is
\* still being written.
Serve(P, t, results) ==
    IF resp # NoResponse THEN {}
    ELSE {[db |-> r.db,
           resp |-> [req |-> t, status |-> r.resp.status, code |-> r.resp.code,
                     body |-> r.resp.body, wrote |-> r.db # db]] :
            r \in {o \in results : WithinBounds(P, o.db)}}

\* the storage statement of a handler that fails, 0 for none
Faults(t) == 0..Statements(t.op, db)

\* the response is written to the client and the request ends
Respond ==
    /\ resp # NoResponse
    /\ resp' = NoResponse
    /\ UNCHANGED <<db, color, tasks, groq, summ>>

GetAccounts(P) ==
        LET t == [op |-> "list_accounts", pc |-> "start"] IN
        \E n \in Serve(P, t, {list_accounts(db, t, fault) : fault \in Faults(t)}) :
            db' = n.db /\ resp' = n.resp /\ UNCHANGED <<color, tasks, groq, summ>>

PostAccounts(P) ==
    \E name \in P.names, email \in P.emails, password \in P.passwords :
        LET t == [op |-> "create_account", pc |-> "start", name |-> name,
                           email |-> email, password |-> password] IN
        \E n \in Serve(P, t, {create_account(db, t, fault) : fault \in Faults(t)}) :
            db' = n.db /\ resp' = n.resp /\ UNCHANGED <<color, tasks, groq, summ>>

GetAccountGroups(P) ==
    \E id \in P.ids :
        LET t == [op |-> "list_groups_for_user", pc |-> "start", user_id |-> id] IN
        \E n \in Serve(P, t, {run_list_groups_for_user(db, t, fault) : fault \in Faults(t)}) :
            db' = n.db /\ resp' = n.resp /\ UNCHANGED <<color, tasks, groq, summ>>

PostGroups(P) ==
    \E name \in P.group_names, id \in P.ids :
        LET t == [op |-> "create_group", pc |-> "start", group_name |-> name,
                           created_by |-> id] IN
        \E n \in Serve(P, t, {run_create_group(db, t, fault) : fault \in Faults(t)}) :
            db' = n.db /\ resp' = n.resp /\ UNCHANGED <<color, tasks, groq, summ>>

GetGroup(P) ==
    \E id \in P.ids :
        LET t == [op |-> "get_group", pc |-> "start", id |-> id] IN
        \E n \in Serve(P, t, {get_group(db, t, fault) : fault \in Faults(t)}) :
            db' = n.db /\ resp' = n.resp /\ UNCHANGED <<color, tasks, groq, summ>>

GetGroupUsers(P) ==
    \E id \in P.ids :
        LET t == [op |-> "list_group_members", pc |-> "start", group_id |-> id] IN
        \E n \in Serve(P, t, {run_list_group_members(db, t, fault) : fault \in Faults(t)}) :
            db' = n.db /\ resp' = n.resp /\ UNCHANGED <<color, tasks, groq, summ>>

PostGroupUsers(P) ==
    \E g \in P.ids, u \in P.ids, role \in P.roles :
        LET t == [op |-> "add_user_to_group", pc |-> "start", group_id |-> g,
                           user_id |-> u, role |-> role] IN
        \E n \in Serve(P, t, {run_add_user_to_group(db, t, fault) : fault \in Faults(t)}) :
            db' = n.db /\ resp' = n.resp /\ UNCHANGED <<color, tasks, groq, summ>>

GetGroupNotes(P) ==
    \E id \in P.ids :
        LET t == [op |-> "list_group_notes", pc |-> "start", group_id |-> id] IN
        \E n \in Serve(P, t, {run_list_group_notes(db, t, fault) : fault \in Faults(t)}) :
            db' = n.db /\ resp' = n.resp /\ UNCHANGED <<color, tasks, groq, summ>>

PostGroupNotes(P) ==
    \E g \in P.ids, c \in P.contents, p \in P.geometries,
       by \in P.authors, e \in P.can_edits :
        LET t == [op |-> "create_group_note", pc |-> "start",
                           title |-> c.title, content |-> c.content, color |-> c.color,
                           x |-> p.x, y |-> p.y, width |-> p.width, height |-> p.height,
                           z_index |-> p.z_index, created_by |-> by, group_id |-> g,
                           can_edit |-> e] IN
        \E n \in Serve(P, t, {run_create_group_note(db, t, fault) : fault \in Faults(t)}) :
            db' = n.db /\ resp' = n.resp /\ UNCHANGED <<color, tasks, groq, summ>>

DeleteGroupNotes(P) ==
    \E id \in P.ids :
        LET t == [op |-> "clear_group_notes", pc |-> "start", group_id |-> id] IN
        \E n \in Serve(P, t, {run_clear_group_notes(db, t, fault) : fault \in Faults(t)}) :
            db' = n.db /\ resp' = n.resp /\ UNCHANGED <<color, tasks, groq, summ>>

PatchNote(P) ==
    \E id \in P.ids, c \in P.contents :
        LET t == [op |-> "update_note_content", pc |-> "start", note_id |-> id,
                           title |-> c.title, content |-> c.content, color |-> c.color] IN
        \E n \in Serve(P, t, {update_note_content(db, t, fault) : fault \in Faults(t)}) :
            db' = n.db /\ resp' = n.resp /\ UNCHANGED <<color, tasks, groq, summ>>

DeleteNote(P) ==
    \E id \in P.ids :
        LET t == [op |-> "delete_note", pc |-> "start", note_id |-> id] IN
        \E n \in Serve(P, t, {delete_note(db, t, fault) : fault \in Faults(t)}) :
            db' = n.db /\ resp' = n.resp /\ UNCHANGED <<color, tasks, groq, summ>>

PatchNotePosition(P) ==
    \E id \in P.ids, p \in P.geometries :
        LET t == [op |-> "update_note_position", pc |-> "start", note_id |-> id,
                           x |-> p.x, y |-> p.y, width |-> p.width, height |-> p.height,
                           z_index |-> p.z_index] IN
        \E n \in Serve(P, t, {update_note_position(db, t, fault) : fault \in Faults(t)}) :
            db' = n.db /\ resp' = n.resp /\ UNCHANGED <<color, tasks, groq, summ>>

GetDebug(P) ==
        LET t == [op |-> "debug", pc |-> "start"] IN
        \E n \in Serve(P, t, {debug(db, t, fault) : fault \in Faults(t)}) :
            db' = n.db /\ resp' = n.resp /\ UNCHANGED <<color, tasks, groq, summ>>

\* ------------------------------------------------------------------------
\* SpecAccounts: the account handlers on an empty store, with every account
\* input

Init ==
    /\ db = EmptyDb
    /\ resp = NoResponse
    /\ color = ColorIdle
    /\ tasks = NoTasks
    /\ groq = GroqIdle
    /\ summ = SummIdle

NextAccounts ==
    \/ Respond
    \/ GetAccounts(AllInputs)
    \/ PostAccounts(AllInputs)

SpecAccounts == Init /\ [][NextAccounts]_vars

\* ------------------------------------------------------------------------
\* SpecGroups: accounts, groups and memberships.  Accounts are created from
\* valid inputs only.

ValidNames == { <<" ","A","l"," ">> }

ValidEmails == { <<"a","@","x">>, <<" ","b","@","x"," ">> }

ValidPasswords == { <<"s","e","c","r","e","t">> }

GroupInputs ==
    [AllInputs EXCEPT !.names = ValidNames, !.emails = ValidEmails,
                      !.passwords = ValidPasswords]

NextGroups ==
    \/ Respond
    \/ PostAccounts(GroupInputs)
    \/ GetAccountGroups(GroupInputs)
    \/ PostGroups(GroupInputs)
    \/ GetGroup(GroupInputs)
    \/ GetGroupUsers(GroupInputs)
    \/ PostGroupUsers(GroupInputs)

SpecGroups == Init /\ [][NextGroups]_vars

\* ------------------------------------------------------------------------
\* SpecNotes: the note handlers on a store that holds two accounts and two
\* groups: account 1 owns group 1, account 2 owns group 2 and is a member of
\* group 1.

PopulatedDb ==
    [accounts |->
         {[id |-> 1, name |-> <<"A","l">>, email |-> <<"a","@","x">>,
           password_hash |-> hash_password(<<"s","e","c","r","e","t">>)],
          [id |-> 2, name |-> <<"B","o">>, email |-> <<"b","@","x">>,
           password_hash |-> hash_password(<<"s","e","c","r","e","t">>)]},
     groups |->
         {[id |-> 1, group_name |-> <<"T","e","a","m">>, created_by |-> 1],
          [id |-> 2, group_name |-> <<"O","p","s">>, created_by |-> 2]},
     group_users |->
         {[id |-> 1, group_id |-> 1, user_id |-> 1, role |-> "owner"],
          [id |-> 2, group_id |-> 2, user_id |-> 2, role |-> "owner"],
          [id |-> 3, group_id |-> 1, user_id |-> 2, role |-> "member"]},
     notes |-> {},
     note_shares |-> {},
     seq |-> [t \in Tables |->
                 CASE t = "accounts" -> 2
                   [] t = "groups" -> 2
                   [] t = "group_users" -> 3
                   [] OTHER -> 0]]

InitNotes ==
    /\ db = PopulatedDb
    /\ resp = NoResponse
    /\ color = ColorIdle
    /\ tasks = NoTasks
    /\ groq = GroqIdle
    /\ summ = SummIdle

\* every note is created with can_edit omitted
NoteInputs == [AllInputs EXCEPT !.can_edits = {None}]

NextNotes ==
    \/ Respond
    \/ GetGroupNotes(NoteInputs)
    \/ PostGroupNotes(NoteInputs)
    \/ DeleteGroupNotes(NoteInputs)
    \/ PatchNote(NoteInputs)
    \/ DeleteNote(NoteInputs)
    \/ PatchNotePosition(NoteInputs)
    \/ GetDebug(NoteInputs)

SpecNotes == InitNotes /\ [][NextNotes]_vars

\* ------------------------------------------------------------------------
\* Spec: every route, on an empty store.  Accounts are created from valid
\* inputs, and there are at most MaxGroupsWhole groups and MaxNotesWhole
\* notes.

WholeInputs ==
    [GroupInputs EXCEPT !.max_groups = MaxGroupsWhole,
                        !.max_notes = MaxNotesWhole]

Next ==
    \/ Respond
    \/ GetAccounts(WholeInputs)
    \/ PostAccounts(WholeInputs)
    \/ GetAccountGroups(WholeInputs)
    \/ PostGroups(WholeInputs)
    \/ GetGroup(WholeInputs)
    \/ GetGroupUsers(WholeInputs)
    \/ PostGroupUsers(WholeInputs)
    \/ GetGroupNotes(WholeInputs)
    \/ PostGroupNotes(WholeInputs)
    \/ DeleteGroupNotes(WholeInputs)
    \/ PatchNote(WholeInputs)
    \/ DeleteNote(WholeInputs)
    \/ PatchNotePosition(WholeInputs)
    \/ GetDebug(WholeInputs)

Spec == Init /\ [][Next]_vars

\* ------------------------------------------------------------------------
\* SpecColor: normalize_color on every string of at most MaxColorLen
\* characters over ColorAlphabet, on the palette names in several spellings
\* and on a missing input; the result is normalised once more.

ColorAlphabet == {" ", "#", "a", "G"}

ColorStrings(n) == UNION {[1..k -> ColorAlphabet] : k \in 0..n}

NamedColors ==
    { <<"p","i","n","k">>, <<" ","P","i","n","k"," ">>,
      <<"Y","E","L","L","O","W">>, <<"g","r","e","e","n">>,
      <<"b","l","u","e">>, <<"o","r","a","n","g","e">>,
      <<"P","u","r","p","l","e">>, <<"r","e","d">>,
      <<"#","1","2","a","b","e","f">>, <<"#","1","2","a","b","e">>,
      <<"#",MultiByteChar,"1","2","3","4">> }

ColorInputs ==
    {None} \cup {Some(s) : s \in ColorStrings(MaxColorLen) \cup NamedColors}

InitColor ==
    /\ db = EmptyDb
    /\ resp = NoResponse
    /\ color \in {[input |-> i, once |-> None, twice |-> None] : i \in ColorInputs}
    /\ tasks = NoTasks
    /\ groq = GroqIdle
    /\ summ = SummIdle

NormalizeOnce ==
    /\ ~color.once.is_some
    /\ color' = [color EXCEPT !.once = Some(normalize_color(color.input))]
    /\ UNCHANGED <<db, resp, tasks, groq, summ>>

\* the String returned is passed back as Some(&str)
NormalizeTwice ==
    /\ color.once.is_some
    /\ ~color.twice.is_some
    /\ color' = [color EXCEPT !.twice = Some(normalize_color(Some(color.once.value)))]
    /\ UNCHANGED <<db, resp, tasks, groq, summ>>

NextColor == NormalizeOnce \/ NormalizeTwice

SpecColor == InitColor /\ [][NextColor]_vars

\* ------------------------------------------------------------------------
\* SpecConcurrent: MaxClients requests are served at the same time on the
\* populated store.  A handler runs from one await to the next in one step;
\* a storage call is one step and a transaction commits or rolls back as
\* one.  The requests are the writers of the API: the check-then-write
\* handlers, a new account, and the two deletions of notes.

MaxAccountsConcurrent == 4

MaxGroupsConcurrent == 3

MaxNotesConcurrent == 2

ConcurrentBounds ==
    [max_accounts |-> MaxAccountsConcurrent, max_groups |-> MaxGroupsConcurrent,
     max_notes |-> MaxNotesConcurrent]

ConcurrentRequests ==
    { [op |-> "create_account", pc |-> "start", name |-> <<"C">>,
       email |-> <<" ","c","@","x">>, password |-> <<"s","e","c","r","e","t">>],
      [op |-> "create_group", pc |-> "start", group_name |-> <<"N","e","w">>,
       created_by |-> 3],
      [op |-> "add_user_to_group", pc |-> "start", group_id |-> 1,
       user_id |-> 2, role |-> None],
      [op |-> "create_group_note", pc |-> "start",
       title |-> None, content |-> None, color |-> None,
       x |-> 10, y |-> 20, width |-> None, height |-> None,
       z_index |-> None, created_by |-> Some(1), group_id |-> 1,
       can_edit |-> None],
      [op |-> "create_group_note", pc |-> "start",
       title |-> None, content |-> None, color |-> None,
       x |-> 10, y |-> 20, width |-> None, height |-> None,
       z_index |-> None, created_by |-> Some(2), group_id |-> 1,
       can_edit |-> None],
      [op |-> "clear_group_notes", pc |-> "start", group_id |-> 1],
      [op |-> "delete_note", pc |-> "start", note_id |-> 1] }

InitConcurrent ==
    /\ db = PopulatedDb
    /\ resp = NoResponse
    /\ color = ColorIdle
    /\ tasks = NoTasks
    /\ groq = GroqIdle
    /\ summ = SummIdle

\* a request arrives at a free worker
Arrive(c) ==
    /\ tasks[c] = Free
    /\ \E t \in ConcurrentRequests :
          tasks' = [tasks EXCEPT ![c] = [req |-> t, status |-> 0, code |-> "none"]]
    /\ UNCHANGED <<db, resp, color, groq, summ>>

Running(c, op) == tasks[c].req.op = op /\ tasks[c].status = 0

\* the handler of worker c has run to its next await or to its response
Advance(c, r) ==
    /\ WithinBounds(ConcurrentBounds, r.db)
    /\ db' = r.db
    /\ tasks' = [tasks EXCEPT ![c] =
                   IF r.done
                   THEN [req |-> tasks[c].req, status |-> r.resp.status,
                         code |-> r.resp.code]
                   ELSE [req |-> r.task, status |-> 0, code |-> "none"]]
    /\ UNCHANGED <<resp, color, groq, summ>>

StepCreateAccount(c) ==
    /\ Running(c, "create_account")
    /\ \E fault \in Faults(tasks[c].req) :
          Advance(c, create_account(db, tasks[c].req, fault))

StepCreateGroup(c) ==
    /\ Running(c, "create_group")
    /\ \E fault \in Faults(tasks[c].req) :
          Advance(c, create_group(db, tasks[c].req, fault))

StepAddUserToGroup(c) ==
    /\ Running(c, "add_user_to_group")
    /\ \E fault \in Faults(tasks[c].req) :
          Advance(c, add_user_to_group(db, tasks[c].req, fault))

StepCreateGroupNote(c) ==
    /\ Running(c, "create_group_note")
    /\ \E fault \in Faults(tasks[c].req) :
          Advance(c, create_group_note(db, tasks[c].req, fault))

StepClearGroupNotes(c) ==
    /\ Running(c, "clear_group_notes")
    /\ \E fault \in Faults(tasks[c].req) :
          Advance(c, clear_group_notes(db, tasks[c].req, fault))

StepDeleteNote(c) ==
    /\ Running(c, "delete_note")
    /\ \E fault \in Faults(tasks[c].req) :
          Advance(c, delete_note(db, tasks[c].req, fault))

\* the response of worker c is written and the worker is free again
Retire(c) ==
    /\ tasks[c].status # 0
    /\ tasks' = [tasks EXCEPT ![c] = Free]
    /\ UNCHANGED <<db, resp, color, groq, summ>>

NextConcurrent ==
    \E c \in Clients :
        \/ Arrive(c)
        \/ StepCreateAccount(c)
        \/ StepCreateGroup(c)
        \/ StepAddUserToGroup(c)
        \/ StepCreateGroupNote(c)
        \/ StepClearGroupNotes(c)
        \/ StepDeleteNote(c)
        \/ Retire(c)

SpecConcurrent == InitConcurrent /\ [][NextConcurrent]_vars

\* ------------------------------------------------------------------------
\* Completion client (groq.rs) and SpecGroq: summarize is called with a
\* text, sends its request, and reads the reply the endpoint gives; the
\* endpoint answers with any of Replies.

\* serde_json::Value
Value(kind, v) == [kind |-> kind, v |-> v]

Object(keys, v) == Value("object", [k \in keys |-> v])

\* Value::get(&str)
get(v, key) ==
    IF v.kind = "object" /\ key \in DOMAIN v.v THEN Some(v.v[key]) ELSE None

as_array(v) == IF v.kind = "array" THEN Some(v.v) ELSE None

as_str(v) == IF v.kind = "string" THEN Some(v.v) ELSE None

\* StatusCode::is_success
is_success(status) == 200 <= status /\ status <= 299

\* Err(anyhow!(..)) with the context or bail! message
context(message) == [ok |-> FALSE, error |-> message]

\* every missing part of the reply read as an empty summary
read_response_or_default(reply) ==
    IF ~is_success(reply.status) THEN context("Groq API error")
    ELSE IF ~reply.body.is_some THEN [ok |-> TRUE, value |-> ""]
    ELSE LET choices == get(reply.body.value, "choices")
             items == IF choices.is_some THEN as_array(choices.value) ELSE None
             message == IF items.is_some /\ Len(items.value) > 0
                        THEN get(items.value[1], "message") ELSE None
             content == IF message.is_some THEN get(message.value, "content")
                        ELSE None
             str == IF content.is_some THEN as_str(content.value) ELSE None
         IN [ok |-> TRUE, value |-> unwrap_or(str, "")]

\* summarize from the status check on: the reply has arrived
read_response(reply) ==
    IF ~is_success(reply.status) THEN context("Groq API error")
    ELSE IF ~reply.body.is_some
         THEN context("failed to deserialize Groq JSON")
    ELSE LET choices == get(reply.body.value, "choices")
             items == IF choices.is_some THEN as_array(choices.value) ELSE None
         IN
         IF ~items.is_some
         THEN context("Groq API response missing 'choices' array")
         ELSE IF Len(items.value) = 0
         THEN context("Groq API response 'choices' array is empty")
         ELSE LET message == get(items.value[1], "message") IN
              IF ~message.is_some
              THEN context("Groq API response missing 'message' in first choice")
              ELSE LET content == get(message.value, "content")
                       str == IF content.is_some THEN as_str(content.value)
                              ELSE None
                   IN
                   IF ~str.is_some
                   THEN context("Groq API response missing 'content' string in message")
                   ELSE [ok |-> TRUE, value |-> str.value]

TextInputs == {"", "long text"}

StatusInputs == {200, 201, 401, 429, 500}

Choice(content) == Object({"message"}, Object({"content"}, content))

\* the response bodies: not JSON (None), or a JSON value
BodyInputs ==
    {None} \cup
    {Some(v) : v \in
        { Value("array", <<>>),
          Object({}, Value("null", 0)),
          Object({"error"}, Value("string", "rate limited")),
          Object({"choices"}, Value("null", 0)),
          Object({"choices"}, Value("string", "none")),
          Object({"choices"}, Value("array", <<>>)),
          Object({"choices"}, Value("array", <<Value("string", "text")>>)),
          Object({"choices"}, Value("array", <<Object({}, Value("null", 0))>>)),
          Object({"choices"}, Value("array",
                 <<Object({"message"}, Value("string", "text"))>>)),
          Object({"choices"}, Value("array",
                 <<Object({"message"}, Object({}, Value("null", 0)))>>)),
          Object({"choices"}, Value("array", <<Choice(Value("null", 0))>>)),
          Object({"choices"}, Value("array", <<Choice(Value("number", 5))>>)),
          Object({"choices"}, Value("array", <<Choice(Value("string", ""))>>)),
          Object({"choices"}, Value("array", <<Choice(Value("string", "summary"))>>)),
          Object({"choices"}, Value("array",
                 <<Choice(Value("string", "first")),
                   Choice(Value("string", "second"))>>)),
          Object({"choices"}, Value("array",
                 <<Object({}, Value("null", 0)),
                   Choice(Value("string", "second"))>>)) }}

\* send() fails, or a response arrives
Replies ==
    {[delivered |-> FALSE, status |-> 0, body |-> None]} \cup
    {[delivered |-> TRUE, status |-> st, body |-> b] :
        st \in StatusInputs, b \in BodyInputs}

InitGroq ==
    /\ db = EmptyDb
    /\ resp = NoResponse
    /\ color = ColorIdle
    /\ tasks = NoTasks
    /\ groq = GroqIdle
    /\ summ = SummIdle

\* summarize is called: the prompt and the request body are built
Summarize ==
    /\ groq.pc = "idle"
    /\ \E text \in TextInputs :
          groq' = [pc |-> "send", text |-> text, sent |-> 0, reply |-> None,
                   result |-> None]
    /\ UNCHANGED <<db, resp, color, tasks, summ>>

\* client.post(url)...send().await, with its `?`
SendRequest ==
    /\ groq.pc = "send"
    /\ \E reply \in Replies :
          groq' = IF reply.delivered
                  THEN [groq EXCEPT !.pc = "read", !.sent = @ + 1,
                                    !.reply = Some(reply)]
                  ELSE [groq EXCEPT !.pc = "done", !.sent = @ + 1,
                                    !.reply = Some(reply),
                                    !.result = Some(context("Groq API call failed (HTTP)"))]
    /\ UNCHANGED <<db, resp, color, tasks, summ>>

\* the status check, res.text() or res.json(), and the walk to the content
ReadResponse ==
    /\ groq.pc = "read"
    /\ groq' = [groq EXCEPT !.pc = "done",
                            !.result = Some(read_response(groq.reply.value))]
    /\ UNCHANGED <<db, resp, color, tasks, summ>>

\* the Result goes to the caller
ReturnSummary ==
    /\ groq.pc = "done"
    /\ groq' = GroqIdle
    /\ UNCHANGED <<db, resp, color, tasks, summ>>

NextGroq ==
    \/ Summarize
    \/ SendRequest
    \/ ReadResponse
    \/ ReturnSummary

SpecGroq == InitGroq /\ [][NextGroq]_vars

\* ------------------------------------------------------------------------
\* POST /api/summarize and SpecSummarize.  The handler is the one main.rs
\* builds the router for (AppState with http, groq_api_key and groq_model);
\* its steps are those of the specification: the byte ceiling, the text
\* taken from the body, the length bounds, one completion call, one row.

\* the default byte ceiling, 32 KiB
SummarizeMaxBytes == 32768

MaxSummaries == 2

\* no ceiling applied
body_fits_always(request) == TRUE

body_fits(request) == request.bytes <= SummarizeMaxBytes

\* bytes: the length of the body; text: what the body's text is once it is
\* taken out ("malformed": a JSON body that does not parse)
SummarizeRequests ==
    {r \in [bytes : {SummarizeMaxBytes - 1, SummarizeMaxBytes,
                      SummarizeMaxBytes + 1, 2 * SummarizeMaxBytes},
             content_type : {"json", "text"},
             text : {"malformed", "empty", "short", "fine", "long"}] :
        r.text = "malformed" => r.content_type = "json"}

InitSummarize ==
    /\ db = EmptyDb
    /\ resp = NoResponse
    /\ color = ColorIdle
    /\ tasks = NoTasks
    /\ groq = GroqIdle
    /\ summ = SummIdle

Answer(status, code) == [summ EXCEPT !.pc = "done", !.status = status, !.code = code]

PostSummarize ==
    /\ summ.pc = "idle"
    /\ \E request \in SummarizeRequests :
          summ' = [summ EXCEPT !.pc = "size", !.request = request,
                               !.parsed = FALSE, !.calls = 0,
                               !.stored_before = summ.stored,
                               !.status = 0, !.code = "none"]
    /\ UNCHANGED <<db, resp, color, tasks, groq>>

\* the body is read up to the ceiling
CheckBodySize ==
    /\ summ.pc = "size"
    /\ summ' = IF body_fits(summ.request)
               THEN [summ EXCEPT !.pc = "parse"]
               ELSE Answer(413, "payload_too_large")
    /\ UNCHANGED <<db, resp, color, tasks, groq>>

\* the text is taken from the JSON field or from the whole body, trimmed
\* and measured
ParseText ==
    /\ summ.pc = "parse"
    /\ LET text == summ.request.text
           next == IF text = "malformed" THEN Answer(400, "invalid_json")
                   ELSE IF text = "empty" THEN Answer(400, "text_empty")
                   ELSE IF text = "short" THEN Answer(422, "text_too_short")
                   ELSE IF text = "long" THEN Answer(422, "text_too_long")
                   ELSE [summ EXCEPT !.pc = "complete"]
       IN summ' = [next EXCEPT !.parsed = TRUE]
    /\ UNCHANGED <<db, resp, color, tasks, groq>>

\* groq::summarize is called once; it returns a summary or an error
CompleteText ==
    /\ summ.pc = "complete"
    /\ \E ok \in BOOLEAN :
          LET next == IF ok THEN [summ EXCEPT !.pc = "store"]
                      ELSE Answer(500, "internal")
          IN summ' = [next EXCEPT !.calls = @ + 1]
    /\ UNCHANGED <<db, resp, color, tasks, groq>>

\* the summary row is inserted, or the INSERT fails
StoreSummary ==
    /\ summ.pc = "store"
    /\ summ.stored < MaxSummaries
    /\ \E ok \in BOOLEAN :
          summ' = IF ok THEN [Answer(200, "ok") EXCEPT !.stored = @ + 1]
                  ELSE Answer(500, "internal")
    /\ UNCHANGED <<db, resp, color, tasks, groq>>

RespondSummarize ==
    /\ summ.pc = "done"
    /\ summ' = [SummIdle EXCEPT !.stored = summ.stored]
    /\ UNCHANGED <<db, resp, color, tasks, groq>>

NextSummarize ==
    \/ PostSummarize
    \/ CheckBodySize
    \/ ParseText
    \/ CompleteText
    \/ StoreSummary
    \/ RespondSummarize

SpecSummarize == InitSummarize /\ [][NextSummarize]_vars

\* ------------------------------------------------------------------------
\* Properties

Request(op) == resp.req.op = op

\* what a table gained and lost between two stores
Added(before, after_, table) == after_[table] \ before[table]

Removed(before, after_, table) == before[table] \ after_[table]

IsOwnerRow(m, group_id, user_id) ==
    m.group_id = group_id /\ m.user_id = user_id /\ m.role = "owner"

\* the group row and the owner row of its creator are both there or both not
BothOrNeither(before, after_, t) ==
    /\ Removed(before, after_, "groups") = {}
    /\ Removed(before, after_, "group_users") = {}
    /\ \/ /\ Added(before, after_, "groups") = {}
          /\ Added(before, after_, "group_users") = {}
       \/ \E g \in after_.groups, m \in after_.group_users :
             /\ Added(before, after_, "groups") = {g}
             /\ Added(before, after_, "group_users") = {m}
             /\ g.group_name = trim(t.group_name)
             /\ g.created_by = t.created_by
             /\ IsOwnerRow(m, g.id, t.created_by)

ListsAsOwner(d, user_id, group_id) ==
    LET l == run_list_groups_for_user(d, [op |-> "list_groups_for_user",
                                          pc |-> "start", user_id |-> user_id], 0).resp
    IN /\ l.status = 200
       /\ \E row \in l.body : row.id = group_id /\ row.role = "owner"

CreateGroupRequests ==
    {[op |-> "create_group", pc |-> "start", group_name |-> name, created_by |-> by] :
        name \in {n \in GroupNameInputs : ~is_empty(trim(n))}, by \in Ids(db.accounts)}

\* C1: creating a group is atomic and makes the creator an owner.  In every
\* reachable state every group has the owner row of its creator and every
\* membership row belongs to a group; from every reachable state, for every
\* valid name and existing creator and whichever storage statement fails,
\* create_group adds the group row and the owner row together or adds
\* neither, without fault it answers 200, and when it answers 200 the new
\* group is there and list_groups_for_user(creator) lists it with role owner.
C1_CreateGroupAtomic ==
    /\ \A g \in db.groups : \E m \in db.group_users : IsOwnerRow(m, g.id, g.created_by)
    /\ \A m \in db.group_users : m.group_id \in Ids(db.groups)
    /\ \A t \in CreateGroupRequests : \A fault \in 0..Statements(t.op, db) :
          LET r == run_create_group(db, t, fault) IN
          /\ BothOrNeither(db, r.db, t)
          /\ fault = 0 => r.resp.status = 200
          /\ r.resp.status = 200 =>
                /\ r.resp.body \in {GroupSummary(g) : g \in Added(db, r.db, "groups")}
                /\ ListsAsOwner(r.db, t.created_by, r.resp.body.id)

\* a group was created and answered with 200, and its creator lists it
C1_Witness ==
    /\ Request("create_group")
    /\ resp.status = 200
    /\ resp.body \in {GroupSummary(g) : g \in db.groups}
    /\ ListsAsOwner(db, resp.req.created_by, resp.body.id)

MembershipsOf(d, group_id, user_id) ==
    {m \in d.group_users : m.group_id = group_id /\ m.user_id = user_id}

ValidRoles == {None, Some("owner"), Some("member")}

AddUserRequests ==
    {[op |-> "add_user_to_group", pc |-> "start", group_id |-> g, user_id |-> u,
      role |-> role] :
        g \in Ids(db.groups), u \in Ids(db.accounts), role \in ValidRoles}

\* C2: adding a member is idempotent.  In every reachable state there is at
\* most one membership row for a group and a user; from every reachable
\* state, for every existing group and account and every valid role,
\* add_user_to_group without fault answers 204, leaves every membership row
\* (and so the stored role) as it was when the pair is already a member, and
\* otherwise adds exactly the one row with the requested role.
C2_AddMemberIdempotent ==
    /\ \A m1, m2 \in db.group_users :
          (m1.group_id = m2.group_id /\ m1.user_id = m2.user_id) => m1 = m2
    /\ \A t \in AddUserRequests :
          LET r == run_add_user_to_group(db, t, 0)
              again == run_add_user_to_group(r.db, t, 0) IN
          /\ r.resp = NO_CONTENT
          /\ again.resp = NO_CONTENT
          /\ again.db = r.db
          /\ Cardinality(MembershipsOf(r.db, t.group_id, t.user_id)) = 1
          /\ IF MembershipsOf(db, t.group_id, t.user_id) # {}
             THEN r.db = db
             ELSE \E m \in r.db.group_users :
                     /\ r.db.group_users = db.group_users \cup {m}
                     /\ m.group_id = t.group_id /\ m.user_id = t.user_id
                     /\ m.role = unwrap_or(t.role, "member")

\* a second addition of a pair with another role was answered 204 and the
\* stored role is still the first one
C2_Witness ==
    /\ Request("add_user_to_group")
    /\ resp.status = 204
    /\ \E m \in MembershipsOf(db, resp.req.group_id, resp.req.user_id) :
          m.role # unwrap_or(resp.req.role, "member")

IsHexColor(s) ==
    /\ Len(s) = 7
    /\ s[1] = "#"
    /\ \A i \in 2..7 : s[i] \in Digits \cup {"A","B","C","D","E","F"}

\* C6: normalize_color is total and idempotent.  For every input, missing
\* or a string, it returns the default #FFFF88 or '#' followed by six
\* uppercase hexadecimal digits, and normalising that result returns it
\* unchanged; the results stored by the two applications agree with this.
C6_NormalizeColorIdempotent ==
    LET out == normalize_color(color.input) IN
    /\ out = DefaultColor \/ IsHexColor(out)
    /\ normalize_color(Some(out)) = out
    /\ color.once.is_some => color.once.value = out
    /\ color.twice.is_some => color.twice.value = color.once.value

\* a lower-case hexadecimal colour was normalised twice
C6_Witness ==
    /\ color.input.is_some
    /\ color.twice.is_some
    /\ color.once.value # trim(color.input.value)
    /\ color.once.value # DefaultColor

PositiveIds == 1..MaxIdInput

SharedTo(d, group_id) ==
    {n \in d.notes : \E ns \in d.note_shares :
                        ns.note_id = n.id /\ ns.group_id = group_id}

\* the store without the notes shared to the group and without their shares
WithoutSharedTo(d, group_id) ==
    [d EXCEPT !.notes = @ \ SharedTo(d, group_id),
              !.note_shares = {ns \in @ : ns.note_id \notin Ids(SharedTo(d, group_id))}]

\* C3: clearing a group's notes deletes exactly the notes shared to the
\* group.  From every reachable state, for every group id and whichever
\* storage statement fails, clear_notes_for_group either fails and leaves
\* the store as it was, or removes the notes that have a share row to the
\* group together with their share rows, leaves every other note and share
\* row untouched and returns the number of note rows it deleted; without
\* fault it does not fail, and the handler answers 200 with that count for
\* a group that exists.
C3_ClearGroupNotesExact ==
    \A g \in PositiveIds :
        /\ \A fault \in 0..(Cardinality(SharedTo(db, g)) + 3) :
              LET r == Db_clear_notes_for_group(db, g, fault) IN
              IF r.ok
              THEN /\ r.db = WithoutSharedTo(db, g)
                   /\ r.value = Cardinality(db.notes) - Cardinality(r.db.notes)
                   /\ r.value = Cardinality(SharedTo(db, g))
              ELSE fault # 0 /\ r.db = db
        /\ LET h == run_clear_group_notes(db, [op |-> "clear_group_notes",
                                               pc |-> "start", group_id |-> g], 0) IN
           IF g \in Ids(db.groups)
           THEN /\ h.resp.status = 200
                /\ h.resp.body = [removed |-> Cardinality(SharedTo(db, g))]
                /\ h.db = WithoutSharedTo(db, g)
           ELSE h.resp = not_found("group_not_found") /\ h.db = db

\* a group's notes were cleared, some were removed, and a note of another
\* group is still there
C3_Witness ==
    /\ Request("clear_group_notes")
    /\ resp.status = 200
    /\ resp.body.removed >= 1
    /\ SharedTo(db, resp.req.group_id) = {}
    /\ db.notes # {}

ListedIn(d, group_id) ==
    LET l == run_list_group_notes(d, [op |-> "list_group_notes", pc |-> "start",
                                      group_id |-> group_id], 0).resp
    IN IF l.status = 200 THEN {row.id : row \in l.body} ELSE {}

\* C4: no dangling shares.  In every reachable state every note_shares row
\* references a note row that exists; from every reachable state, whenever
\* delete_note of a note answers 204, no share row of the note remains and
\* no group's note listing has the note, and without fault the deletion of
\* a note that exists answers 204.
C4_NoDanglingShares ==
    /\ \A ns \in db.note_shares : ns.note_id \in Ids(db.notes)
    /\ \A n \in PositiveIds : \A fault \in 0..1 :
          LET r == delete_note(db, [op |-> "delete_note", pc |-> "start",
                                    note_id |-> n], fault) IN
          /\ (fault = 0 /\ n \in Ids(db.notes)) => r.resp = NO_CONTENT
          /\ r.resp = NO_CONTENT =>
                /\ n \notin Ids(r.db.notes)
                /\ \A ns \in r.db.note_shares : ns.note_id # n
                /\ \A g \in PositiveIds : n \notin ListedIn(r.db, g)
                /\ \A ns \in r.db.note_shares : ns.note_id \in Ids(r.db.notes)

\* a note was deleted and answered 204 while another note keeps its share
C4_Witness ==
    /\ Request("delete_note")
    /\ resp.status = 204
    /\ resp.req.note_id \notin Ids(db.notes)
    /\ \A ns \in db.note_shares : ns.note_id # resp.req.note_id
    /\ db.note_shares # {}

UpdatePositionRequests ==
    {[op |-> "update_note_position", pc |-> "start", note_id |-> id,
      x |-> p.x, y |-> p.y, width |-> p.width, height |-> p.height,
      z_index |-> p.z_index] :
        id \in PositiveIds \ Ids(db.notes), p \in GeometryInputs}

UpdateContentRequests ==
    {[op |-> "update_note_content", pc |-> "start", note_id |-> id,
      title |-> c.title, content |-> c.content, color |-> c.color] :
        id \in PositiveIds \ Ids(db.notes), c \in ContentInputs}

\* C5: updating a note that does not exist reports not found and changes
\* nothing.  From every reachable state, for every positive id for which
\* there is no note row, update_note_position and update_note_content leave
\* every row of every table as it was, whether or not the UPDATE fails, and
\* answer 404 note_not_found when it does not fail.
C5_UpdateMissingNote ==
    /\ \A t \in UpdatePositionRequests : \A fault \in 0..1 :
          LET r == update_note_position(db, t, fault) IN
          /\ r.db = db
          /\ fault = 0 => r.resp = not_found("note_not_found")
    /\ \A t \in UpdateContentRequests : \A fault \in 0..1 :
          LET r == update_note_content(db, t, fault) IN
          /\ r.db = db
          /\ fault = 0 => r.resp = not_found("note_not_found")

\* an update of a note that does not exist was answered 404 while another
\* note exists
C5_Witness ==
    /\ Request("update_note_position") \/ Request("update_note_content")
    /\ resp.status = 404
    /\ resp.code = "note_not_found"
    /\ resp.req.note_id > 0
    /\ ~resp.wrote
    /\ db.notes # {}

IsMember(d, group_id, user_id) == MembershipsOf(d, group_id, user_id) # {}

\* the code that create_group_note answers with when no storage statement
\* fails, by the claim
ExpectedNoteAnswer(d, t) ==
    IF t.group_id \notin Ids(d.groups) THEN "group_not_found"
    ELSE IF t.created_by.value \notin Ids(d.accounts) THEN "account_not_found"
    ELSE IF ~IsMember(d, t.group_id, t.created_by.value) THEN "not_member"
    ELSE "ok"

\* C7: note creation enforces the membership of the author.  Every response
\* to a create_group_note request with a positive group id and a supplied
\* creator id is: 404 group_not_found for a missing group, else 404
\* account_not_found for a missing account, else not_member for an account
\* that is not a member of the group, else 200, or 500 when a storage
\* statement fails.  With 200 the note row, with the creator, and its one
\* share row to the group are there; with any other answer the handler wrote
\* nothing.
C7_AuthorMustBeMember ==
    (/\ Request("create_group_note")
     /\ resp.req.group_id > 0
     /\ resp.req.created_by.is_some)
    => LET t == resp.req
           want == ExpectedNoteAnswer(db, t) IN
       /\ resp.code \in {want, "internal"}
       /\ resp.code \in {"group_not_found", "account_not_found"} => resp.status = 404
       /\ resp.code = "internal" <=> resp.status = 500
       /\ IF resp.status = 200
          THEN /\ want = "ok"
               /\ resp.wrote
               /\ \E n \in db.notes :
                     /\ n.id = resp.body.id
                     /\ n.created_by = t.created_by
                     /\ Cardinality({ns \in db.note_shares : ns.note_id = n.id}) = 1
                     /\ \E ns \in db.note_shares :
                           ns.note_id = n.id /\ ns.group_id = t.group_id
          ELSE ~resp.wrote

\* a note by an account that exists but is not a member of the group that
\* exists was refused, and nothing was written
C7_Witness ==
    /\ Request("create_group_note")
    /\ resp.code = "not_member"
    /\ resp.req.created_by.is_some
    /\ resp.req.created_by.value \in Ids(db.accounts)
    /\ resp.req.group_id \in Ids(db.groups)
    /\ ~resp.wrote

\* the identifiers a request carries
IdsOf(t) ==
    CASE t.op = "list_groups_for_user" -> {t.user_id}
      [] t.op = "create_group"         -> {t.created_by}
      [] t.op = "get_group"            -> {t.id}
      [] t.op = "list_group_members"   -> {t.group_id}
      [] t.op = "add_user_to_group"    -> {t.group_id, t.user_id}
      [] t.op = "list_group_notes"     -> {t.group_id}
      [] t.op = "create_group_note"    ->
            {t.group_id} \cup (IF t.created_by.is_some THEN {t.created_by.value} ELSE {})
      [] t.op = "clear_group_notes"    -> {t.group_id}
      [] t.op = "update_note_content"  -> {t.note_id}
      [] t.op = "delete_note"          -> {t.note_id}
      [] t.op = "update_note_position" -> {t.note_id}
      [] OTHER                         -> {}

\* C8: identifiers must be positive.  Every response to a request that
\* carries an identifier <= 0 (a path id, the user_id of a membership
\* addition, the created_by of a group creation, the supplied created_by of
\* a note creation) has status 400, and its handler wrote nothing.
C8_IdentifiersPositive ==
    (resp # NoResponse /\ \E id \in IdsOf(resp.req) : id <= 0) =>
        (resp.status = 400 /\ ~resp.wrote)

\* C9: a membership addition with a supplied role other than owner and
\* member is rejected with status 400 and adds no row, and every membership
\* row has role owner or member.  The request is one that nothing else is
\* wrong with: its ids are positive and its account and group exist; status
\* 500 is the answer when a storage statement fails.
C9_BadRoleRejected400 ==
    /\ \A m \in db.group_users : m.role \in {"owner", "member"}
    /\ (/\ Request("add_user_to_group")
        /\ resp.req.role.is_some
        /\ resp.req.role.value \notin {"owner", "member"}
        /\ resp.req.group_id \in Ids(db.groups)
        /\ resp.req.user_id \in Ids(db.accounts))
       => (resp.status \in {400, 500} /\ ~resp.wrote)

\* the number of characters of a string
chars_count(s) == Len(s)

HasNonSpace(s) == \E i \in 1..Len(s) : s[i] # " "

\* the answer the validation order of the claim gives to a request whose
\* trimmed password has the given length
ExpectedAccountAnswer(t, password_length) ==
    IF ~HasNonSpace(t.name) THEN bad_request("name_empty")
    ELSE IF ~HasNonSpace(t.email) THEN bad_request("email_empty")
    ELSE IF \A i \in 1..Len(t.email) : t.email[i] # "@"
         THEN unprocessable("email_invalid")
    ELSE IF password_length < 6 THEN unprocessable("password_short")
    ELSE Json(None)

\* C10: account creation validates before writing.  Every response to
\* create_account is the first failing check in the order name_empty (400),
\* email_empty (400), email_invalid (422), password_short (422), where the
\* password is short when it has fewer than 6 characters after trimming,
\* and then the handler wrote nothing; a row is stored only when no check
\* fails.
C10_AccountValidation ==
    Request("create_account") =>
        LET want == ExpectedAccountAnswer(resp.req, chars_count(trim(resp.req.password))) IN
        IF want.status # 200
        THEN resp.status = want.status /\ resp.code = want.code /\ ~resp.wrote
        ELSE resp.status \in {200, 500}

\* the same with the length of the password in bytes, as str::len counts
C10_AccountValidationBytes ==
    Request("create_account") =>
        LET want == ExpectedAccountAnswer(resp.req, str_len(trim(resp.req.password))) IN
        IF want.status # 200
        THEN resp.status = want.status /\ resp.code = want.code /\ ~resp.wrote
        ELSE resp.status \in {200, 500}

\* ------------------------------------------------------------------------
\* C11: account emails are unique

UniqueEmails(d) ==
    \A a \in d.accounts, b \in d.accounts :
        trim(a.email) = trim(b.email) => a = b

Answered(c, op) == tasks[c].req.op = op /\ tasks[c].status # 0

\* two requests in service at once that create an account for one email
\* have not both succeeded
AtMostOneCreated ==
    \A c1 \in Clients, c2 \in Clients :
        (/\ c1 # c2
         /\ Answered(c1, "create_account")
         /\ Answered(c2, "create_account")
         /\ trim(tasks[c1].req.email) = trim(tasks[c2].req.email))
        => ~(tasks[c1].status = 200 /\ tasks[c2].status = 200)

\* a create_account that returns while its email is stored returns 500
\* 'internal' and leaves the accounts as they are
DuplicateRejected ==
    \A c \in Clients :
        (/\ Running(c, "create_account")
         /\ tasks'[c].status # 0
         /\ \E a \in db.accounts : a.email = trim(tasks[c].req.email))
        => /\ tasks'[c].status = 500
           /\ tasks'[c].code = "internal"
           /\ db'.accounts = db.accounts

\* C11: in every reachable state no two account rows have the same email;
\* a create_account for an email already stored ends with 500 'internal'
\* and adds no row; of two create_account requests served at the same time
\* for one email at most one succeeds.
C11_EmailsUnique ==
    /\ [](UniqueEmails(db) /\ AtMostOneCreated)
    /\ [][DuplicateRejected]_vars

\* both workers have answered a create_account for the same email, one with
\* 200 and one with 500
C11_Witness ==
    /\ Answered(1, "create_account") /\ tasks[1].status = 200
    /\ Answered(2, "create_account") /\ tasks[2].status = 500
    /\ tasks[2].code = "internal"
    /\ trim(tasks[1].req.email) = trim(tasks[2].req.email)
    /\ Cardinality({a \in db.accounts : a.email = trim(tasks[1].req.email)}) = 1

\* ------------------------------------------------------------------------
\* C12: the note row and its share row are written together

SharesOf(d, note_id) == {s \in d.note_shares : s.note_id = note_id}

NoteIffShare(d) ==
    /\ \A n \in d.notes : SharesOf(d, n.id) # {}
    /\ \A s \in d.note_shares : s.note_id \in Ids(d.notes)

\* C12: in every state that a request served at the same time can observe,
\* also after a failure at or between the two INSERTs of create_note, a
\* note row is stored if and only if a share row of it is stored.
C12_NoteAndShareTogether == NoteIffShare(db)

\* one worker's db.create_note has failed and the handler answered 500,
\* another worker's has committed, and the store holds a note with its share
C12_Witness ==
    /\ Answered(1, "create_group_note") /\ tasks[1].req.pc = "create"
    /\ tasks[1].status = 500
    /\ Answered(2, "create_group_note") /\ tasks[2].status = 200
    /\ db.notes # {}
    /\ db.seq["notes"] = 1

\* ------------------------------------------------------------------------
\* C13: account, group, note, and the listings afterwards

PaletteNames ==
    { <<"y","e","l","l","o","w">>, <<"p","i","n","k">>, <<"g","r","e","e","n">>,
      <<"b","l","u","e">>, <<"o","r","a","n","g","e">>, <<"p","u","r","p","l","e">> }

PaletteHexes ==
    { <<"#","F","F","F","F","8","8">>, <<"#","F","B","C","F","E","8">>,
      <<"#","B","B","F","7","D","0">>, <<"#","B","F","D","B","F","E">>,
      <<"#","F","E","D","7","A","A">>, <<"#","E","9","D","5","F","F">> }

NamesPaletteColor(c, name) == c.is_some /\ to_lowercase(trim(c.value)) = name

\* what GET /api/accounts/:id/groups answers when no statement fails
GroupsListed(d, user_id) ==
    run_list_groups_for_user(d, [op |-> "list_groups_for_user", pc |-> "start",
                                 user_id |-> user_id], 0).resp.body

\* what GET /api/groups/:id/notes answers when no statement fails
NotesListed(d, group_id) ==
    run_list_group_notes(d, [op |-> "list_group_notes", pc |-> "start",
                             group_id |-> group_id], 0).resp.body

\* the note of a group created by its author has just been created
RoundTripDone ==
    /\ resp.req.op = "create_group_note"
    /\ resp.status = 200
    /\ resp.req.created_by.is_some
    /\ \E g \in db.groups : /\ g.id = resp.req.group_id
                            /\ g.created_by = resp.req.created_by.value

\* C13: from an empty store, after an account is created, a group with that
\* account as creator, and a note of that creator in that group at (x, y)
\* with a palette name as colour: the stored colour is the palette's hex
\* string ('#FBCFE8' for pink), the account's groups list the group with
\* role 'owner', and the group's notes list the note at (x, y), as the only
\* note when it is the first of the store.
C13_RoundTrip ==
    RoundTripDone =>
        LET t == resp.req
            listed == {n \in NotesListed(db, t.group_id) : n.id = resp.body.id}
        IN
        /\ Cardinality(listed) = 1
        /\ \A n \in listed : n.x = t.x /\ n.y = t.y
        /\ db.seq["notes"] = 1 => NotesListed(db, t.group_id) = listed
        /\ \A n \in listed :
              /\ (\E name \in PaletteNames : NamesPaletteColor(t.color, name))
                     => n.color \in PaletteHexes
              /\ NamesPaletteColor(t.color, <<"p","i","n","k">>)
                     => n.color = <<"#","F","B","C","F","E","8">>
        /\ \E g \in GroupsListed(db, t.created_by.value) :
              g.id = t.group_id /\ g.role = "owner"

\* a pink note at (10, 20) by the creator of the group is the first note of
\* the store
C13_Witness ==
    /\ RoundTripDone
    /\ NamesPaletteColor(resp.req.color, <<"p","i","n","k">>)
    /\ resp.req.x = 10 /\ resp.req.y = 20
    /\ db.seq["notes"] = 1
    /\ db.seq["accounts"] = 1
    /\ db.seq["groups"] = 1

\* ------------------------------------------------------------------------
\* C14: one colour normalisation for creating and for updating a note

ColorSamples ==
    { None, Some(<<>>), Some(<<" "," ">>), Some(<<" ","P","i","n","k">>),
      Some(<<"m","a","u","v","e">>), Some(<<"#","1","2","a","b","e">>),
      Some(<<" ","#","a","a","b","b","c","c"," ">>),
      Some(<<"#",MultiByteChar,"1","2","3","4">>) }

ColorOf(d, note_id) == {n.color : n \in {m \in d.notes : m.id = note_id}}

\* the colour a note of group 1 is created with, for colour c
ColorCreated(d, c) ==
    LET r == run_create_group_note(d,
                 [op |-> "create_group_note", pc |-> "start",
                  title |-> None, content |-> None, color |-> c,
                  x |-> 10, y |-> 20, width |-> None, height |-> None,
                  z_index |-> None, created_by |-> None, group_id |-> 1,
                  can_edit |-> None], 0)
    IN IF r.resp.status = 200 THEN ColorOf(r.db, r.resp.body.id) ELSE {}

\* the colour note_id has after its content is updated with colour c
ColorUpdated(d, note_id, c) ==
    LET r == update_note_content(d,
                 [op |-> "update_note_content", pc |-> "start",
                  note_id |-> note_id, title |-> None, content |-> None,
                  color |-> c], 0)
    IN IF r.resp.status = 204 THEN ColorOf(r.db, note_id) ELSE {}

\* C14: the colour create_group_note stores for a colour c and the colour
\* update_note_content stores for c are the same, and are normalize_color(c),
\* for every c, a missing one included.
C14_SameColorOnCreateAndUpdate ==
    /\ (resp.req.op = "create_group_note" /\ resp.status = 200)
          => ColorOf(db, resp.body.id) = {normalize_color(resp.req.color)}
    /\ (resp.req.op = "update_note_content" /\ resp.status = 204)
          => ColorOf(db, resp.req.note_id) = {normalize_color(resp.req.color)}
    /\ resp = NoResponse =>
          \A c \in ColorSamples :
              /\ ColorCreated(db, c) = {normalize_color(c)}
              /\ \A n \in db.notes :
                    ColorUpdated(db, n.id, c) = {normalize_color(c)}

\* a note created without a colour has been updated with the colour ' Pink'
C14_Witness ==
    /\ resp.req.op = "update_note_content"
    /\ resp.status = 204
    /\ resp.req.color = Some(<<" ","P","i","n","k">>)
    /\ ColorOf(db, resp.req.note_id) = {<<"#","F","B","C","F","E","8">>}

\* ------------------------------------------------------------------------
\* C15: one request per summarize call, and no summary without a content

IsKind(opt, kind) == opt.is_some /\ opt.value.kind = kind

Member(opt, key) ==
    IF IsKind(opt, "object") /\ key \in DOMAIN opt.value.v
    THEN Some(opt.value.v[key]) ELSE None

FirstOf(opt) ==
    IF IsKind(opt, "array") /\ Len(opt.value.v) >= 1
    THEN Some(opt.value.v[1]) ELSE None

\* choices[0].message.content of the body of a reply
ContentOf(reply) ==
    Member(Member(FirstOf(Member(reply.body, "choices")), "message"), "content")

\* the reply is a success whose choices[0].message.content is a string
HasSummary(reply) ==
    /\ reply.delivered
    /\ reply.status \in 200..299
    /\ IsKind(ContentOf(reply), "string")

\* C15: a summarize call sends exactly one request to the completion
\* endpoint whatever fails, and returns a summary only when the response
\* status is a success and choices[0].message.content is a string, which is
\* the summary; a transport failure, another status, missing or empty
\* 'choices', a missing 'message' and a missing or non-string 'content' each
\* end with an error, not with an empty summary.
C15_OneRequestAndExplicitErrors ==
    /\ groq.sent <= 1
    /\ groq.pc \in {"read", "done"} => groq.sent = 1
    /\ groq.pc = "done" =>
          LET reply == groq.reply.value
              result == groq.result.value
          IN IF HasSummary(reply)
             THEN result.ok /\ result.value = ContentOf(reply).value.v
             ELSE ~result.ok

\* a 200 whose first choice has no message has ended with an error after
\* one request
C15_Witness ==
    /\ groq.pc = "done"
    /\ groq.sent = 1
    /\ groq.reply.value.status = 200
    /\ IsKind(FirstOf(Member(groq.reply.value.body, "choices")), "object")
    /\ ~Member(FirstOf(Member(groq.reply.value.body, "choices")), "message").is_some
    /\ ~groq.result.value.ok

\* ------------------------------------------------------------------------
\* C16: the byte ceiling of POST /api/summarize

Oversized == summ.pc # "idle" /\ summ.request.bytes > 32 * 1024

\* C16: a POST /api/summarize whose body is longer than the byte ceiling
\* (32 KiB) is answered 413 whatever the body holds; it is not parsed, no
\* completion call is made for it and no summary row is stored for it.
C16_OversizedBodyRejected413 ==
    Oversized =>
        /\ ~summ.parsed
        /\ summ.calls = 0
        /\ summ.stored = summ.stored_before
        /\ summ.pc = "done" => summ.status = 413

\* a body one byte over the ceiling whose text is fine has been answered
\* 413 after an earlier request was summarised and stored
C16_Witness ==
    /\ summ.pc = "done"
    /\ summ.request.bytes = 32 * 1024 + 1
    /\ summ.request.text = "fine"
    /\ summ.status = 413
    /\ summ.stored = 1

\* ------------------------------------------------------------------------
\* C17: the two note updates write disjoint columns

\* everything but the row of note_id in notes is as before, and that row
\* is still one row
OnlyNoteTouched(before, after_, note_id) ==
    /\ after_.accounts = before.accounts
    /\ after_.groups = before.groups
    /\ after_.group_users = before.group_users
    /\ after_.note_shares = before.note_shares
    /\ after_.seq = before.seq
    /\ {n \in after_.notes : n.id # note_id} = {n \in before.notes : n.id # note_id}
    /\ Cardinality({n \in after_.notes : n.id = note_id}) = 1
    /\ Cardinality({n \in before.notes : n.id = note_id}) = 1

SameContent(n, m) ==
    /\ m.title = n.title /\ m.content = n.content /\ m.color = n.color
    /\ m.created_by = n.created_by

SameGeometry(n, m) ==
    /\ m.x = n.x /\ m.y = n.y /\ m.width = n.width /\ m.height = n.height
    /\ m.z_index = n.z_index /\ m.created_by = n.created_by

PositionFrame ==
    (resp'.req.op = "update_note_position" /\ resp'.status = 204 /\ resp = NoResponse)
    => /\ OnlyNoteTouched(db, db', resp'.req.note_id)
       /\ \A n \in db.notes, m \in db'.notes :
             (n.id = resp'.req.note_id /\ m.id = n.id) => SameContent(n, m)

ContentFrame ==
    (resp'.req.op = "update_note_content" /\ resp'.status = 204 /\ resp = NoResponse)
    => /\ OnlyNoteTouched(db, db', resp'.req.note_id)
       /\ \A n \in db.notes, m \in db'.notes :
             (n.id = resp'.req.note_id /\ m.id = n.id) => SameGeometry(n, m)

\* C17: a successful update_note_position changes only x, y, width, height
\* and z_index of the addressed note and leaves its title, content, color,
\* created_by, the share rows and every other note as they were; a
\* successful update_note_content changes only title, content and color and
\* leaves the geometry, created_by, the share rows and every other note as
\* they were.
C17_UpdatesTouchDisjointFields == [][PositionFrame /\ ContentFrame]_vars

\* of two notes, the second has got a title, a content and the colour pink
\* and has kept a geometry that is not the default one, and the first is
\* without a title and with the default colour
C17_Witness ==
    /\ resp.req.op = "update_note_content"
    /\ resp.status = 204
    /\ resp.req.note_id = 2
    /\ \E n \in db.notes, m \in db.notes :
          /\ n.id = 1 /\ ~n.title.is_some /\ n.color = DefaultColor
          /\ m.id = 2 /\ m.title = Some("t")
          /\ m.color = <<"#","F","B","C","F","E","8">>
          /\ m.width = 100 /\ m.x = 30

\* ------------------------------------------------------------------------
\* C18: one share row for each note

\* the groups whose note listing has the note
ListingGroups(d, note_id) ==
    {g \in Ids(d.groups) : note_id \in Ids(Db_list_notes_for_group(d, g))}

\* the notes that clearing group g takes from the store
Cleared(d, g) == d.notes \ Db_clear_notes_for_group(d, g, 0).db.notes

\* C18: after any sequence of operations every note row has exactly one
\* share row, each note is listed by exactly one group, and
\* clear_notes_for_group(g) deletes no note that another group lists.
C18_OneShareForEachNote ==
    /\ \A n \in db.notes :
          /\ Cardinality(SharesOf(db, n.id)) = 1
          /\ Cardinality(ListingGroups(db, n.id)) = 1
    /\ \A g \in Ids(db.groups) :
          \A n \in Cleared(db, g) : ListingGroups(db, n.id) = {g}

\* group 1 has been cleared of its one note while the note of group 2 is
\* still listed there
C18_Witness ==
    /\ resp.req.op = "clear_group_notes"
    /\ resp.req.group_id = 1
    /\ resp.status = 200
    /\ resp.body.removed = 1
    /\ Cardinality(db.notes) = 1
    /\ \A n \in db.notes : ListingGroups(db, n.id) = {2}

\* ------------------------------------------------------------------------
\* C19: what a handler has checked still holds when it writes

AuthorsAreMembers(d) ==
    \A n \in d.notes :
        n.created_by.is_some =>
            /\ n.created_by.value \in Ids(d.accounts)
            /\ \A s \in SharesOf(d, n.id) :
                  \E m \in d.group_users : /\ m.group_id = s.group_id
                                           /\ m.user_id = n.created_by.value

MembershipsReferToRows(d) ==
    \A m \in d.group_users :
        m.group_id \in Ids(d.groups) /\ m.user_id \in Ids(d.accounts)

\* C19: under every interleaving of requests served at the same time, in
\* every reachable state every note with a created_by refers to an account
\* that exists and is a member of the group the note is shared to, and
\* every membership row refers to a group and an account that exist.
C19_ChecksHoldAtWrite == AuthorsAreMembers(db) /\ MembershipsReferToRows(db)

\* account 2, added to group 1 by a request, is the author of a note of
\* group 1 created by one worker while the other worker, past its check of
\* the group, is about to clear the group
C19_Witness ==
    /\ Answered(1, "create_group_note")
    /\ tasks[1].status = 200
    /\ tasks[1].req.created_by = Some(2)
    /\ \E n \in db.notes : n.created_by = Some(2)
    /\ Running(2, "clear_group_notes")
    /\ tasks[2].req.pc = "clear"

====
